---- MODULE Spec2Model ----
(***************************************************************************)
(* Search State Controller of the Local Business Finder (src/App.tsx).     *)
(*                                                                         *)
(* The App component owns nine pieces of React state and two asynchronous  *)
(* handlers, handleSearch and handleLoadMore.  Each handler runs           *)
(* synchronously up to its await of fetchBusinessesByPincode; the code     *)
(* after the await runs later, as one step, when the call resolves or      *)
(* rejects.  A handler therefore contributes one action for its start and  *)
(* one action for each way its call can complete.                          *)
(*                                                                         *)
(* Strings that only matter by equality (business names) are numbers.      *)
(* A value of type `string | null' is a sequence of length at most one:    *)
(* <<>> is null and <<s>> is the string s, so that the empty string and    *)
(* null stay different values.                                             *)
(***************************************************************************)
EXTENDS Integers, Sequences, FiniteSets, TLC

VARIABLES pincode, area, businesses, sources, isLoading, isMoreLoading,
          error, hasSearched, hasMore,
          pending, nextId, lastEvent, lastFetch, lastSearch

vars == <<pincode, area, businesses, sources, isLoading, isMoreLoading,
          error, hasSearched, hasMore, pending, nextId, lastEvent, lastFetch,
          lastSearch>>

(***************************************************************************)
(* Bounds of the model.                                                    *)
(***************************************************************************)
\* number of calls of fetchBusinessesByPincode in one behaviour
MaxFetches == 3
\* a response holds at most PageSize + MaxExtra businesses
MaxExtra == 1

(***************************************************************************)
(* Program constants.                                                      *)
(***************************************************************************)
PageSize == 30
PincodeLength == 6
ValidationMessage == "Please enter a valid 6-digit pincode."
UnknownErrorMessage == "An unknown error occurred."

Null == <<>>
Some(s) == <<s>>

(***************************************************************************)
(* types.ts                                                                *)
(***************************************************************************)
Business(n, a) == [name |-> n, address |-> a]
Source(u, t) == [uri |-> u, title |-> t]

(***************************************************************************)
(* What the user can type into the two inputs of the search form.          *)
(* Both inputs start empty.                                                *)
(***************************************************************************)
Pincodes == {"110001", "1100011"}
Areas == {"Saket"}

(***************************************************************************)
(* What fetchBusinessesByPincode can answer.  The capability is opaque:    *)
(* any list of businesses and any list of sources, or any thrown value.    *)
(* A business list is a run of consecutive names, or a full page whose     *)
(* second entry repeats the name of the first; every entry carries the id  *)
(* of the call that returned it as its address.                            *)
(***************************************************************************)
Run(start, len, a) == [i \in 1..len |-> Business(start + i - 1, a)]

Repeat(list) == [list EXCEPT ![2].name = list[1].name]

Old == <<Source("x", "old")>>
NewAndY == <<Source("x", "new"), Source("y", "y")>>
Twice == <<Source("y", "y"), Source("x", "old"), Source("x", "new")>>

Response(b, s) == [businesses |-> b, sources |-> s]

Responses(a) ==
    { Response(Run(1, 0, a), <<>>),
      Response(Run(1, 12, a), Old),
      Response(Run(1, PageSize, a), Old),
      Response(Run(1, PageSize, a), NewAndY),
      Response(Run(16, PageSize, a), NewAndY),
      Response(Run(1, PageSize + MaxExtra, a), Twice),
      Response(Repeat(Run(1, PageSize, a)), <<>>) }

\* Values a rejected call can throw: an Error always has a message (which
\* may be empty); anything else may or may not have one.
Thrown ==
    { [isError |-> TRUE,  message |-> Some("Quota exceeded")],
      [isError |-> TRUE,  message |-> Some("")],
      [isError |-> FALSE, message |-> Some("boom")],
      [isError |-> FALSE, message |-> Null] }

(***************************************************************************)
(* Pure helpers of the two handlers.                                       *)
(***************************************************************************)
Names(list) == [i \in DOMAIN list |-> list[i].name]

HasName(list, n) == \E i \in DOMAIN list : list[i].name = n

\* newResults.filter(nb => !known.some(eb => eb.name === nb.name))
UniqueNewResults(newResults, known) ==
    LET keep(nb) == ~HasName(known, nb.name)
    IN  SelectSeq(newResults, keep)

\* a set that keeps the value of a key already present
MapSetKeepFirst(m, k, v) ==
    IF \E i \in DOMAIN m : m[i].key = k
    THEN m
    ELSE Append(m, [key |-> k, value |-> v])

\* Map.prototype.set on a map kept as its entries in insertion order: a
\* key already present keeps its position and takes the new value.
MapSet(m, k, v) ==
    IF \E i \in DOMAIN m : m[i].key = k
    THEN [i \in DOMAIN m |-> IF m[i].key = k THEN [key |-> k, value |-> v]
                                              ELSE m[i]]
    ELSE Append(m, [key |-> k, value |-> v])

RECURSIVE NewMap(_)
\* new Map(entries): the entries are set one after the other
NewMap(entries) ==
    IF entries = <<>> THEN <<>>
    ELSE LET n == Len(entries)
         IN  MapSet(NewMap(SubSeq(entries, 1, n - 1)),
                    entries[n].key, entries[n].value)

MapValues(m) == [i \in DOMAIN m |-> m[i].value]

\* prev => Array.from(new Map([...prev, ...newSources].map(s => [s.uri, s])).values())
MergeSources(prev, newSources) ==
    LET allSources == prev \o newSources
        entries == [i \in DOMAIN allSources |->
                       [key |-> allSources[i].uri, value |-> allSources[i]]]
    IN  MapValues(NewMap(entries))

\* catch (e): e.message for an Error, the fixed text for anything else
ErrorText(e) ==
    IF e.isError THEN e.message[1] ELSE UnknownErrorMessage

\* a check that only refuses pincodes that are too short
InvalidPincodeShort(p) == Len(p) < PincodeLength

\* pincode.length !== 6
InvalidPincode(p) == Len(p) # PincodeLength

\* a check that takes any page of at least 30 results as a full page
SearchHasMoreAtLeast(results) == Len(results) > 0 /\ Len(results) >= PageSize

\* results.length > 0 && results.length === 30
SearchHasMore(results) == Len(results) > 0 /\ Len(results) = PageSize

\* a check that only takes an empty page as the last one
LoadMoreClearsHasMoreWhenEmpty(newResults) == Len(newResults) = 0

\* a check that overlooks the empty page
LoadMoreClearsHasMoreNonEmpty(newResults) ==
    Len(newResults) > 0 /\ Len(newResults) < PageSize

\* a check that takes a page of exactly 30 results as the last one
LoadMoreClearsHasMoreAtMost(newResults) == Len(newResults) <= PageSize

\* newResults.length < 30
LoadMoreClearsHasMore(newResults) == Len(newResults) < PageSize

NoRequest == [id |-> 0, kind |-> "none"]
NoResult == [kind |-> "none"]

\* number of calls of fetchBusinessesByPincode made so far
Fetches == nextId - 1

\* the state a handler step starts from
Pre ==
    [businesses |-> businesses, sources |-> sources, isLoading |-> isLoading,
     isMoreLoading |-> isMoreLoading, error |-> error,
     hasSearched |-> hasSearched, hasMore |-> hasMore, fetches |-> Fetches]

\* the last step a handler made: which one, the request it issued or
\* completed, the outcome of the call, and the state it started from
Event(op, req, result) ==
    [op |-> op, req |-> req, result |-> result, pre |-> Pre]

Init ==
    /\ pincode = ""
    /\ area = ""
    /\ businesses = <<>>
    /\ sources = <<>>
    /\ isLoading = FALSE
    /\ isMoreLoading = FALSE
    /\ error = Null
    /\ hasSearched = FALSE
    /\ hasMore = FALSE
    /\ pending = {}
    /\ nextId = 1
    /\ lastEvent = [op |-> "init", req |-> NoRequest, result |-> NoResult,
                    pre |-> NoResult]
    /\ lastFetch = [kind |-> "none", ok |-> FALSE, count |-> 0, fresh |-> 0]
    /\ lastSearch = [id |-> 0, pincode |-> "", area |-> ""]

(***************************************************************************)
(* The search form: the two inputs and the search button.                  *)
(***************************************************************************)
setPincode(p) ==
    /\ p # pincode
    /\ pincode' = p
    /\ UNCHANGED <<area, businesses, sources, isLoading, isMoreLoading, error,
                   hasSearched, hasMore, pending, nextId, lastEvent,
                   lastFetch, lastSearch>>

setArea(a) ==
    /\ a # area
    /\ area' = a
    /\ UNCHANGED <<pincode, businesses, sources, isLoading, isMoreLoading,
                   error, hasSearched, hasMore, pending, nextId, lastEvent,
                   lastFetch, lastSearch>>

\* The form receives isLoading and offers the search while it is false.
SearchOffered == ~isLoading

(***************************************************************************)
(* renderResults: is the "Load More Results" button rendered and enabled?  *)
(***************************************************************************)
Truthy(e) == e # Null /\ e[1] # ""

\* a button that is not disabled while a load-more is pending
LoadMoreOfferedWhilePending ==
    /\ ~isLoading
    /\ ~(Truthy(error) /\ Len(businesses) = 0)
    /\ hasSearched
    /\ Len(businesses) > 0
    /\ hasMore

LoadMoreOffered ==
    /\ ~isLoading
    /\ ~(Truthy(error) /\ Len(businesses) = 0)
    /\ hasSearched
    /\ Len(businesses) > 0
    /\ hasMore
    /\ ~isMoreLoading

(***************************************************************************)
(* handleSearch                                                            *)
(***************************************************************************)
SearchRequest ==
    [id |-> nextId, kind |-> "search", pincode |-> pincode, area |-> area,
     excludeNames |-> Null, businesses |-> businesses, sources |-> sources,
     error |-> error]

\* the accepted search the results on display belong to
SearchContext == [id |-> nextId, pincode |-> pincode, area |-> area]

\* the search that validation refuses issues no request
RefusedRequest ==
    [id |-> 0, kind |-> "none", pincode |-> pincode, area |-> area]

\* a validation that runs after the reset of the results
handleSearchRejectedResetting ==
    /\ SearchOffered
    /\ InvalidPincode(pincode)
    /\ businesses' = <<>>
    /\ sources' = <<>>
    /\ hasMore' = FALSE
    /\ error' = Some(ValidationMessage)
    /\ lastEvent' = Event("handleSearch", RefusedRequest, NoResult)
    /\ UNCHANGED <<pincode, area, isLoading, isMoreLoading, hasSearched,
                   pending, nextId, lastFetch, lastSearch>>

handleSearchRejected ==
    /\ SearchOffered
    /\ InvalidPincode(pincode)
    /\ error' = Some(ValidationMessage)
    /\ lastEvent' = Event("handleSearch", RefusedRequest, NoResult)
    /\ UNCHANGED <<pincode, area, businesses, sources, isLoading,
                   isMoreLoading, hasSearched, hasMore, pending, nextId,
                   lastFetch, lastSearch>>

\* a handler that refuses to start while a load-more is pending
handleSearchAcceptedSingleFlight ==
    /\ SearchOffered
    /\ ~isMoreLoading
    /\ ~InvalidPincode(pincode)
    /\ nextId <= MaxFetches
    /\ isLoading' = TRUE
    /\ error' = Null
    /\ businesses' = <<>>
    /\ sources' = <<>>
    /\ hasSearched' = TRUE
    /\ hasMore' = FALSE
    /\ pending' = pending \cup {SearchRequest}
    /\ nextId' = nextId + 1
    /\ lastEvent' = Event("handleSearch", SearchRequest, NoResult)
    /\ lastSearch' = SearchContext
    /\ UNCHANGED <<pincode, area, isMoreLoading, lastFetch>>

\* a reset that forgets setHasMore(false)
handleSearchAcceptedKeepingHasMore ==
    /\ SearchOffered
    /\ ~InvalidPincode(pincode)
    /\ nextId <= MaxFetches
    /\ isLoading' = TRUE
    /\ error' = Null
    /\ businesses' = <<>>
    /\ sources' = <<>>
    /\ hasSearched' = TRUE
    /\ pending' = pending \cup {SearchRequest}
    /\ nextId' = nextId + 1
    /\ lastEvent' = Event("handleSearch", SearchRequest, NoResult)
    /\ lastSearch' = SearchContext
    /\ UNCHANGED <<pincode, area, isMoreLoading, hasMore, lastFetch>>

handleSearchAccepted ==
    /\ SearchOffered
    /\ ~InvalidPincode(pincode)
    /\ nextId <= MaxFetches
    /\ isLoading' = TRUE
    /\ error' = Null
    /\ businesses' = <<>>
    /\ sources' = <<>>
    /\ hasSearched' = TRUE
    /\ hasMore' = FALSE
    /\ pending' = pending \cup {SearchRequest}
    /\ nextId' = nextId + 1
    /\ lastEvent' = Event("handleSearch", SearchRequest, NoResult)
    /\ lastSearch' = SearchContext
    /\ UNCHANGED <<pincode, area, isMoreLoading, lastFetch>>

handleSearch == handleSearchRejected \/ handleSearchAccepted

Fresh(list, known) ==
    Cardinality({i \in DOMAIN list : ~HasName(known, list[i].name)})

searchResolved(req, resp) ==
    /\ req \in pending /\ req.kind = "search"
    /\ pending' = pending \ {req}
    /\ businesses' = resp.businesses
    /\ sources' = resp.sources
    /\ hasMore' = SearchHasMore(resp.businesses)
    /\ isLoading' = FALSE
    /\ lastEvent' = Event("searchResolved", req, resp)
    /\ lastFetch' = [kind |-> "search", ok |-> TRUE,
                     count |-> Len(resp.businesses),
                     fresh |-> Fresh(resp.businesses, businesses)]
    /\ UNCHANGED <<pincode, area, isMoreLoading, error, hasSearched, nextId,
                   lastSearch>>

\* a catch block that is not followed by the finally block
searchRejectedNoFinally(req, e) ==
    /\ req \in pending /\ req.kind = "search"
    /\ pending' = pending \ {req}
    /\ error' = Some(ErrorText(e))
    /\ lastEvent' = Event("searchRejected", req, e)
    /\ lastFetch' = [kind |-> "search", ok |-> FALSE, count |-> 0, fresh |-> 0]
    /\ UNCHANGED <<pincode, area, businesses, sources, isLoading,
                   isMoreLoading, hasSearched, hasMore, nextId, lastSearch>>

searchRejected(req, e) ==
    /\ req \in pending /\ req.kind = "search"
    /\ pending' = pending \ {req}
    /\ error' = Some(ErrorText(e))
    /\ isLoading' = FALSE
    /\ lastEvent' = Event("searchRejected", req, e)
    /\ lastFetch' = [kind |-> "search", ok |-> FALSE, count |-> 0, fresh |-> 0]
    /\ UNCHANGED <<pincode, area, businesses, sources, isMoreLoading,
                   hasSearched, hasMore, nextId, lastSearch>>

(***************************************************************************)
(* handleLoadMore                                                          *)
(***************************************************************************)
LoadMoreRequest ==
    [id |-> nextId, kind |-> "more", pincode |-> pincode, area |-> area,
     excludeNames |-> Some(Names(businesses)), businesses |-> businesses,
     sources |-> sources]

\* a start that leaves the error of the previous operation on display
handleLoadMoreKeepingError ==
    /\ LoadMoreOffered
    /\ nextId <= MaxFetches
    /\ isMoreLoading' = TRUE
    /\ pending' = pending \cup {LoadMoreRequest}
    /\ nextId' = nextId + 1
    /\ lastEvent' = Event("handleLoadMore", LoadMoreRequest, NoResult)
    /\ UNCHANGED <<pincode, area, businesses, sources, isLoading, error,
                   hasSearched, hasMore, lastFetch, lastSearch>>

handleLoadMore ==
    /\ LoadMoreOffered
    /\ nextId <= MaxFetches
    /\ isMoreLoading' = TRUE
    /\ error' = Null
    /\ pending' = pending \cup {LoadMoreRequest}
    /\ nextId' = nextId + 1
    /\ lastEvent' = Event("handleLoadMore", LoadMoreRequest, NoResult)
    /\ UNCHANGED <<pincode, area, businesses, sources, isLoading,
                   hasSearched, hasMore, lastFetch, lastSearch>>

loadMoreResolved(req, resp) ==
    LET newResults == resp.businesses
        newSources == resp.sources
        uniqueNewResults == UniqueNewResults(newResults, req.businesses)
    IN  /\ req \in pending /\ req.kind = "more"
        /\ pending' = pending \ {req}
        /\ businesses' = IF Len(uniqueNewResults) > 0
                         THEN businesses \o uniqueNewResults
                         ELSE businesses
        /\ sources' = IF Len(newSources) > 0
                      THEN MergeSources(sources, newSources)
                      ELSE sources
        /\ hasMore' = IF LoadMoreClearsHasMore(newResults) THEN FALSE
                      ELSE hasMore
        /\ isMoreLoading' = FALSE
        /\ lastEvent' = Event("loadMoreResolved", req, resp)
        /\ lastFetch' = [kind |-> "more", ok |-> TRUE,
                         count |-> Len(newResults),
                         fresh |-> Fresh(newResults, businesses)]
        /\ UNCHANGED <<pincode, area, isLoading, error, hasSearched, nextId,
                       lastSearch>>

\* a catch block that resets the results the way a new search does
loadMoreRejectedClearing(req, e) ==
    /\ req \in pending /\ req.kind = "more"
    /\ pending' = pending \ {req}
    /\ error' = Some(ErrorText(e))
    /\ businesses' = <<>>
    /\ sources' = <<>>
    /\ hasMore' = FALSE
    /\ isMoreLoading' = FALSE
    /\ lastEvent' = Event("loadMoreRejected", req, e)
    /\ lastFetch' = [kind |-> "more", ok |-> FALSE, count |-> 0, fresh |-> 0]
    /\ UNCHANGED <<pincode, area, isLoading, hasSearched, nextId, lastSearch>>

loadMoreRejected(req, e) ==
    /\ req \in pending /\ req.kind = "more"
    /\ pending' = pending \ {req}
    /\ error' = Some(ErrorText(e))
    /\ hasMore' = FALSE
    /\ isMoreLoading' = FALSE
    /\ lastEvent' = Event("loadMoreRejected", req, e)
    /\ lastFetch' = [kind |-> "more", ok |-> FALSE, count |-> 0, fresh |-> 0]
    /\ UNCHANGED <<pincode, area, businesses, sources, isLoading,
                   hasSearched, nextId, lastSearch>>

Next ==
    \/ \E p \in Pincodes : setPincode(p)
    \/ \E a \in Areas : setArea(a)
    \/ handleSearchRejected
    \/ handleSearchAccepted
    \/ \E req \in pending : \E resp \in Responses(req.id) :
           searchResolved(req, resp)
    \/ \E req \in pending : \E e \in Thrown : searchRejected(req, e)
    \/ handleLoadMore
    \/ \E req \in pending : \E resp \in Responses(req.id) :
           loadMoreResolved(req, resp)
    \/ \E req \in pending : \E e \in Thrown : loadMoreRejected(req, e)

Spec == Init /\ [][Next]_vars

(***************************************************************************)
(* What the two success paths write, as functions of the values on         *)
(* display (businesses, sources, hasMore, error), so that the two orders   *)
(* in which two responses can arrive can be compared in one state.         *)
(***************************************************************************)
Shown ==
    [businesses |-> businesses, sources |-> sources, hasMore |-> hasMore,
     error |-> error]

\* handleSearch after its await, on success
AfterSearchResolved(st, resp) ==
    [businesses |-> resp.businesses,
     sources |-> resp.sources,
     hasMore |-> SearchHasMore(resp.businesses),
     error |-> st.error]

\* handleLoadMore after its await, on success; captured is the list of
\* businesses the handler was created with
AfterLoadMoreResolved(st, captured, resp) ==
    LET uniqueNewResults == UniqueNewResults(resp.businesses, captured)
    IN  [businesses |-> IF Len(uniqueNewResults) > 0
                        THEN st.businesses \o uniqueNewResults
                        ELSE st.businesses,
         sources |-> IF Len(resp.sources) > 0
                     THEN MergeSources(st.sources, resp.sources)
                     ELSE st.sources,
         hasMore |-> IF LoadMoreClearsHasMore(resp.businesses) THEN FALSE
                     ELSE st.hasMore,
         error |-> st.error]

(***************************************************************************)
(* Every call of the capability eventually resolves or rejects.  A         *)
(* rejection is enabled exactly while its call is in flight and every      *)
(* completion of the call, resolved or rejected, ends that, so weak        *)
(* fairness on one rejection is weak fairness on the completion of the     *)
(* call; it constrains no outcome.                                         *)
(***************************************************************************)
SearchCompletes ==
    LET e == [isError |-> TRUE, message |-> Some("Quota exceeded")]
    IN  \E req \in pending : searchRejected(req, e)

LoadMoreCompletes ==
    LET e == [isError |-> TRUE, message |-> Some("Quota exceeded")]
    IN  \E req \in pending : loadMoreRejected(req, e)

FairSpec == Spec /\ WF_vars(SearchCompletes) /\ WF_vars(LoadMoreCompletes)

TypeOK ==
    /\ pincode \in Pincodes \cup {""}
    /\ area \in Areas \cup {""}
    /\ isLoading \in BOOLEAN
    /\ isMoreLoading \in BOOLEAN
    /\ hasSearched \in BOOLEAN
    /\ hasMore \in BOOLEAN
    /\ nextId \in 1..(MaxFetches + 1)

(***************************************************************************)
(* Vocabulary of the properties.                                           *)
(***************************************************************************)
NoDuplicateNames(list) ==
    \A i, j \in DOMAIN list : list[i].name = list[j].name => i = j

NoDuplicateUris(list) ==
    \A i, j \in DOMAIN list : list[i].uri = list[j].uri => i = j

SearchSucceeded == lastEvent.op = "searchResolved"
SearchFailed == lastEvent.op = "searchRejected"
LoadMoreSucceeded == lastEvent.op = "loadMoreResolved"
LoadMoreFailed == lastEvent.op = "loadMoreRejected"

RECURSIVE DistinctUris(_)
\* the uris of a list, each once, in the order of their first occurrence
DistinctUris(list) ==
    IF list = <<>> THEN <<>>
    ELSE LET n == Len(list)
             front == DistinctUris(SubSeq(list, 1, n - 1))
         IN  IF \E i \in DOMAIN front : front[i] = list[n].uri
             THEN front
             ELSE Append(front, list[n].uri)

FirstCopy(list, u) ==
    list[CHOOSE i \in DOMAIN list :
            list[i].uri = u /\ \A j \in 1..(i - 1) : list[j].uri # u]

LastCopy(list, u) ==
    list[CHOOSE i \in DOMAIN list :
            list[i].uri = u /\ \A j \in (i + 1)..Len(list) : list[j].uri # u]

\* a thrown value carries a message when it has a non-empty one
HasMessage(e) == e.message # Null /\ e.message[1] # ""

(***************************************************************************)
(* C1: businesses never holds two entries with the same name, whatever     *)
(* the capability answers.  The code stores a search response as it is     *)
(* and filters a load-more response only against the list the handler      *)
(* captured, so this fails.                                                *)
(***************************************************************************)
C1_NoDuplicateNames == NoDuplicateNames(businesses)

(***************************************************************************)
(* C2: sources never holds two entries with the same uri, whatever the     *)
(* capability answers.  The code stores the sources of a search response   *)
(* as they are, so this fails.                                             *)
(***************************************************************************)
C2_NoDuplicateUris == NoDuplicateUris(sources)

(***************************************************************************)
(* C3: a search with a pincode whose length is not 6 makes no call of the  *)
(* capability and sets error to the validation message.                    *)
(***************************************************************************)
C3_InvalidPincodeRefused ==
    (lastEvent.op = "handleSearch" /\ Len(lastEvent.req.pincode) # 6)
        => /\ error = Some("Please enter a valid 6-digit pincode.")
           /\ Fetches = lastEvent.pre.fetches
           /\ \A r \in pending : r.id <= lastEvent.pre.fetches

C3_Witness ==
    /\ lastEvent.op = "handleSearch"
    /\ Len(lastEvent.req.pincode) = 7
    /\ lastEvent.pre.error = Null
    /\ error = Some(ValidationMessage)
    /\ Fetches = 0

(***************************************************************************)
(* C4 as stated: a load-more that returns sources leaves the uris of the   *)
(* old and new sources, each once, in the order of first occurrence, each  *)
(* with its first copy.                                                    *)
(***************************************************************************)
C4_MergeKeepsFirstCopy ==
    (LoadMoreSucceeded /\ Len(lastEvent.result.sources) > 0)
        => LET all == lastEvent.pre.sources \o lastEvent.result.sources
               uris == DistinctUris(all)
           IN  sources = [k \in DOMAIN uris |-> FirstCopy(all, uris[k])]

(***************************************************************************)
(* C4 amended: a load-more that returns sources leaves the uris of the     *)
(* old and new sources, each once, in the order of first occurrence, each  *)
(* with its last copy: a returned source replaces, in place, the stored    *)
(* source of the same uri.                                                 *)
(***************************************************************************)
C4_MergeKeepsLastCopy ==
    (LoadMoreSucceeded /\ Len(lastEvent.result.sources) > 0)
        => LET all == lastEvent.pre.sources \o lastEvent.result.sources
               uris == DistinctUris(all)
           IN  /\ sources = [k \in DOMAIN uris |-> LastCopy(all, uris[k])]
               /\ NoDuplicateUris(sources)

C4_Witness ==
    /\ LoadMoreSucceeded
    /\ lastEvent.pre.sources = <<Source("x", "old")>>
    /\ lastEvent.result.sources = <<Source("x", "new"), Source("y", "y")>>
    /\ sources = <<Source("x", "new"), Source("y", "y")>>

(***************************************************************************)
(* C5: a successful load-more leaves the list as it was when the response  *)
(* arrived, followed by the returned businesses whose name is not in that  *)
(* list, in their returned order.  The code filters against the list the   *)
(* handler captured when the load-more was started, so this fails when a   *)
(* search has replaced the list in between.                                *)
(***************************************************************************)
C5_AppendsNamesNewToCurrent ==
    LoadMoreSucceeded
        => LET current == lastEvent.pre.businesses
               isNew(b) == \A i \in DOMAIN current : current[i].name # b.name
           IN  businesses =
                   current \o SelectSeq(lastEvent.result.businesses, isNew)

(***************************************************************************)
(* C6: after a successful search, businesses and sources are the returned  *)
(* lists and hasMore is true exactly when 30 businesses were returned.     *)
(***************************************************************************)
C6_SearchStoresResponse ==
    SearchSucceeded
        => /\ businesses = lastEvent.result.businesses
           /\ sources = lastEvent.result.sources
           /\ hasMore = (Len(lastEvent.result.businesses) = 30)

C6_Witness ==
    /\ SearchSucceeded
    /\ Len(lastEvent.result.businesses) = 30
    /\ Len(businesses) = 30
    /\ hasMore

(***************************************************************************)
(* C7 as stated: whenever hasMore is true the last completed fetch         *)
(* returned exactly 30 businesses, all of them new; and a fetch that       *)
(* returned fewer than 30 leaves hasMore false.                            *)
(***************************************************************************)
C7_HasMoreOnlyAfterFullNewPage ==
    /\ hasMore => /\ lastFetch.ok
                  /\ lastFetch.count = 30
                  /\ lastFetch.fresh = 30
    /\ ((SearchSucceeded \/ LoadMoreSucceeded)
            /\ Len(lastEvent.result.businesses) < 30) => ~hasMore

(***************************************************************************)
(* C7 amended: whenever hasMore is true the last completed fetch           *)
(* succeeded and returned exactly 30 businesses if it was a search, at     *)
(* least 30 if it was a load-more, new or not; and a fetch that returned   *)
(* fewer than 30 leaves hasMore false.                                     *)
(***************************************************************************)
C7_HasMoreOnlyAfterFullPage ==
    /\ hasMore => /\ lastFetch.ok
                  /\ lastFetch.kind = "search" => lastFetch.count = 30
                  /\ lastFetch.kind = "more" => lastFetch.count >= 30
    /\ ((SearchSucceeded \/ LoadMoreSucceeded)
            /\ Len(lastEvent.result.businesses) < 30) => ~hasMore

C7_Witness ==
    /\ hasMore
    /\ LoadMoreSucceeded
    /\ lastFetch.kind = "more"
    /\ lastFetch.count = 30
    /\ lastFetch.fresh = 0

(***************************************************************************)
(* C8: a failed search sets error to the message of the thrown value, or   *)
(* to "An unknown error occurred." when the value has no message, and      *)
(* leaves businesses and sources empty.  The code takes the message of     *)
(* every Error, the empty one included, so this fails.                     *)
(***************************************************************************)
C8_SearchFailureMessage ==
    SearchFailed
        => /\ error = Some(IF HasMessage(lastEvent.result)
                           THEN lastEvent.result.message[1]
                           ELSE "An unknown error occurred.")
           /\ businesses = <<>>
           /\ sources = <<>>

(***************************************************************************)
(* C9 as stated: a failed load-more records an error, clears hasMore and   *)
(* leaves businesses and sources as they were when the load-more was       *)
(* started.                                                                *)
(***************************************************************************)
C9_FailureRestoresStart ==
    LoadMoreFailed
        => /\ error # Null
           /\ ~hasMore
           /\ businesses = lastEvent.req.businesses
           /\ sources = lastEvent.req.sources

(***************************************************************************)
(* C9 amended: a failed load-more records an error, clears hasMore and     *)
(* leaves businesses and sources as they were when the failure arrived;    *)
(* they are as they were when the load-more was started if no search was   *)
(* accepted in between.                                                    *)
(***************************************************************************)
C9_FailureKeepsResults ==
    LoadMoreFailed
        => /\ error # Null
           /\ ~hasMore
           /\ businesses = lastEvent.pre.businesses
           /\ sources = lastEvent.pre.sources
           /\ lastEvent.pre.fetches = lastEvent.req.id
                  => /\ businesses = lastEvent.req.businesses
                     /\ sources = lastEvent.req.sources

C9_Witness ==
    /\ LoadMoreFailed
    /\ lastEvent.pre.hasMore
    /\ ~hasMore
    /\ Len(businesses) = 30
    /\ businesses = lastEvent.req.businesses
    /\ error = Some("Quota exceeded")

(***************************************************************************)
(* C10: a load-more that succeeds with no businesses leaves businesses     *)
(* unchanged and hasMore false.                                            *)
(***************************************************************************)
C10_EmptyLoadMore ==
    (LoadMoreSucceeded /\ Len(lastEvent.result.businesses) = 0)
        => /\ businesses = lastEvent.pre.businesses
           /\ ~hasMore

C10_Witness ==
    /\ LoadMoreSucceeded
    /\ Len(lastEvent.result.businesses) = 0
    /\ lastEvent.pre.hasMore
    /\ Len(businesses) = 30
    /\ ~hasMore

(***************************************************************************)
(* C11: a load-more request carries the pincode and the area of the        *)
(* accepted search whose results it extends, and the names of the current  *)
(* businesses as its exclusion list.  The code passes the current values   *)
(* of the two inputs, so this fails once an input was edited after the     *)
(* search.                                                                 *)
(***************************************************************************)
C11_LoadMoreCarriesSearchContext ==
    lastEvent.op = "handleLoadMore"
        => /\ lastEvent.req.pincode = lastSearch.pincode
           /\ lastEvent.req.area = lastSearch.area
           /\ lastEvent.req.excludeNames = Some(Names(businesses))

(***************************************************************************)
(* C12: isLoading is false once the call of a search has resolved or       *)
(* rejected, isMoreLoading is false once the call of a load-more has       *)
(* resolved or rejected, each flag is true exactly while its call is in    *)
(* flight, and, every call completing, both flags are false again and      *)
(* again: no state with a flag set lasts forever.                          *)
(***************************************************************************)
C12_FlagsCleared ==
    /\ []((SearchSucceeded \/ SearchFailed) => ~isLoading)
    /\ []((LoadMoreSucceeded \/ LoadMoreFailed) => ~isMoreLoading)
    /\ [](isLoading = (\E r \in pending : r.kind = "search"))
    /\ [](isMoreLoading = (\E r \in pending : r.kind = "more"))
    /\ []<>(~isLoading /\ ~isMoreLoading)

C12_Witness ==
    /\ SearchFailed
    /\ lastEvent.pre.isLoading
    /\ lastEvent.pre.isMoreLoading
    /\ ~isLoading
    /\ isMoreLoading

(***************************************************************************)
(* C13 as stated: starting a load-more sets isMoreLoading and leaves       *)
(* businesses, sources and error as they were.                             *)
(***************************************************************************)
C13_StartKeepsError ==
    lastEvent.op = "handleLoadMore"
        => /\ isMoreLoading
           /\ businesses = lastEvent.pre.businesses
           /\ sources = lastEvent.pre.sources
           /\ error = lastEvent.pre.error

(***************************************************************************)
(* C13 amended: starting a load-more sets isMoreLoading, leaves            *)
(* businesses and sources as they were and sets error to null.             *)
(***************************************************************************)
C13_StartClearsError ==
    lastEvent.op = "handleLoadMore"
        => /\ isMoreLoading
           /\ businesses = lastEvent.pre.businesses
           /\ sources = lastEvent.pre.sources
           /\ error = Null

C13_Witness ==
    /\ lastEvent.op = "handleLoadMore"
    /\ lastEvent.pre.error = Some("Please enter a valid 6-digit pincode.")
    /\ error = Null
    /\ isMoreLoading
    /\ Len(businesses) = 30

(***************************************************************************)
(* C14: after a successful load-more hasMore is false if fewer than 30     *)
(* businesses were returned, counted before the filter, and is what it     *)
(* was otherwise, also when the filter dropped every returned business.    *)
(***************************************************************************)
C14_HasMoreByRawCount ==
    LoadMoreSucceeded
        => hasMore = IF Len(lastEvent.result.businesses) < 30
                     THEN FALSE
                     ELSE lastEvent.pre.hasMore

C14_Witness ==
    /\ LoadMoreSucceeded
    /\ Len(lastEvent.result.businesses) = 30
    /\ Names(lastEvent.result.businesses) = Names(lastEvent.pre.businesses)
    /\ businesses = lastEvent.pre.businesses
    /\ lastEvent.pre.hasMore
    /\ hasMore

(***************************************************************************)
(* C15: right after a search is accepted, when its request is issued,      *)
(* businesses and sources are empty, error is null, hasMore is false and   *)
(* hasSearched and isLoading are true, whatever the state was before.      *)
(***************************************************************************)
C15_AcceptedSearchResets ==
    (lastEvent.op = "handleSearch" /\ Len(lastEvent.req.pincode) = 6)
        => /\ lastEvent.req.kind = "search"
           /\ lastEvent.req \in pending
           /\ businesses = <<>>
           /\ sources = <<>>
           /\ error = Null
           /\ ~hasMore
           /\ hasSearched
           /\ isLoading

C15_Witness ==
    /\ lastEvent.op = "handleSearch"
    /\ Len(lastEvent.req.pincode) = 6
    /\ Len(lastEvent.pre.businesses) = 30
    /\ Len(lastEvent.pre.sources) > 0
    /\ lastEvent.pre.error # Null
    /\ lastEvent.pre.hasMore
    /\ businesses = <<>>
    /\ ~hasMore

(***************************************************************************)
(* C16: a search is accepted while a load-more is pending, so that both    *)
(* flags are true at once, and whenever a search and a load-more are both  *)
(* in flight there are responses for which businesses, sources, hasMore    *)
(* and error end up different according to which response arrives first.   *)
(* The third and fourth conjunct tie the two functions used for the        *)
(* comparison to the steps of the handlers.                                *)
(***************************************************************************)
C16_SearchOverlapsLoadMore ==
    /\ (isMoreLoading /\ ~isLoading /\ Len(pincode) = 6
            /\ nextId <= MaxFetches)
           => ENABLED handleSearchAccepted
    /\ \A s, m \in pending :
           (s.kind = "search" /\ m.kind = "more")
               => /\ isLoading /\ isMoreLoading
                  /\ \E rs \in Responses(s.id), rm \in Responses(m.id) :
                         AfterLoadMoreResolved(AfterSearchResolved(Shown, rs),
                                               m.businesses, rm)
                           # AfterSearchResolved(
                                 AfterLoadMoreResolved(Shown, m.businesses, rm),
                                 rs)
    /\ SearchSucceeded
           => Shown = AfterSearchResolved(lastEvent.pre, lastEvent.result)
    /\ LoadMoreSucceeded
           => Shown = AfterLoadMoreResolved(
                          [businesses |-> lastEvent.pre.businesses,
                           sources |-> lastEvent.pre.sources,
                           hasMore |-> lastEvent.pre.hasMore,
                           error |-> lastEvent.pre.error],
                          lastEvent.req.businesses, lastEvent.result)

\* the search was accepted while the load-more was pending, the search
\* resolved first and the load-more then appended to the new results
C16_Witness ==
    /\ LoadMoreSucceeded
    /\ lastEvent.req.id < lastSearch.id
    /\ ~isLoading
    /\ \A i \in DOMAIN lastEvent.pre.businesses :
           lastEvent.pre.businesses[i].address = lastSearch.id
    /\ Len(lastEvent.pre.businesses) > 0
    /\ Len(businesses) > Len(lastEvent.pre.businesses)

(***************************************************************************)
(* C17: in a state with an error, wherever the form offers the search, a   *)
(* search with a pincode of 6 characters is accepted and clears the        *)
(* error, and when it succeeds error is null and the returned results are  *)
(* stored.  A load-more that was pending when the search was accepted and  *)
(* fails before the search succeeds sets error again, so this fails.       *)
(***************************************************************************)
C17_SearchRecoversFromError ==
    /\ (error # Null /\ SearchOffered /\ Len(pincode) = 6
            /\ nextId <= MaxFetches)
           => ENABLED handleSearchAccepted
    /\ (lastEvent.op = "handleSearch" /\ Len(lastEvent.req.pincode) = 6
            /\ lastEvent.pre.error # Null)
           => error = Null /\ lastEvent.req \in pending
    /\ (SearchSucceeded /\ lastEvent.req.error # Null)
           => /\ error = Null
              /\ businesses = lastEvent.result.businesses
              /\ sources = lastEvent.result.sources

(***************************************************************************)
(* C18: every entry of businesses was returned by the most recently        *)
(* accepted search or by a load-more started after it, and the response    *)
(* of a load-more started before that search changes neither businesses    *)
(* nor hasMore nor error.  The code applies the response of a load-more    *)
(* whenever it arrives, so this fails.                                     *)
(***************************************************************************)
C18_ResultsBelongToLastSearch ==
    /\ \A i \in DOMAIN businesses : businesses[i].address >= lastSearch.id
    /\ ((LoadMoreSucceeded \/ LoadMoreFailed)
            /\ lastEvent.req.id < lastSearch.id)
           => /\ businesses = lastEvent.pre.businesses
              /\ hasMore = lastEvent.pre.hasMore
              /\ error = lastEvent.pre.error

(***************************************************************************)
(* C19: a load-more is started only from a state with isLoading false,     *)
(* hasSearched true, businesses not empty, hasMore true and isMoreLoading  *)
(* false; at most one load-more call is in flight; and a load-more call    *)
(* is never the first call: it follows a search that returned results.     *)
(***************************************************************************)
C19_LoadMoreOnlyWhenOffered ==
    /\ lastEvent.op = "handleLoadMore"
           => /\ ~lastEvent.pre.isLoading
              /\ lastEvent.pre.hasSearched
              /\ Len(lastEvent.pre.businesses) > 0
              /\ lastEvent.pre.hasMore
              /\ ~lastEvent.pre.isMoreLoading
    /\ Cardinality({r \in pending : r.kind = "more"}) <= 1
    /\ \A r \in pending :
           r.kind = "more"
               => /\ r.id > 1
                  /\ lastSearch.id >= 1
                  /\ Len(r.businesses) > 0
                  /\ \A i \in DOMAIN r.businesses :
                         r.businesses[i].address < r.id

C19_Witness ==
    /\ lastEvent.op = "handleLoadMore"
    /\ lastEvent.pre.hasMore
    /\ Len(lastEvent.pre.businesses) = 30
    /\ isMoreLoading
    /\ Cardinality({r \in pending : r.kind = "more"}) = 1

(***************************************************************************)
(* C20: a search refused by the validation changes only error:             *)
(* businesses, sources, hasMore, hasSearched, isLoading and isMoreLoading  *)
(* are as they were.                                                       *)
(***************************************************************************)
C20_RefusedSearchChangesOnlyError ==
    (lastEvent.op = "handleSearch" /\ Len(lastEvent.req.pincode) # 6)
        => /\ businesses = lastEvent.pre.businesses
           /\ sources = lastEvent.pre.sources
           /\ hasMore = lastEvent.pre.hasMore
           /\ hasSearched = lastEvent.pre.hasSearched
           /\ isLoading = lastEvent.pre.isLoading
           /\ isMoreLoading = lastEvent.pre.isMoreLoading

C20_Witness ==
    /\ lastEvent.op = "handleSearch"
    /\ Len(lastEvent.req.pincode) # 6
    /\ lastEvent.pre.error = Null
    /\ error = Some(ValidationMessage)
    /\ Len(businesses) = 30
    /\ Len(sources) > 0
    /\ hasMore
    /\ hasSearched
====
